---- MODULE Spec2Model ----
(***************************************************************************)
(* Model of the audio-transcriber batch pipeline:                          *)
(*   AudioTranscriber (core/transcriber.py), the CLI entry point (cli.py), *)
(*   TranscriptionService (api/service.py) and MCPTranscriptionService     *)
(*   (mcp/service.py).                                                     *)
(*                                                                         *)
(* File names are sequences of code points, so that suffix extraction,     *)
(* lower-casing and the name sort are computed as Python computes them.    *)
(* One behaviour exercises one front end (frontEnd): the CLI batch runner, *)
(* a direct call of find_audio_files ("lib"), the service facade batch,    *)
(* an HTTP endpoint of api/main.py, or the agent-protocol batch.           *)
(***************************************************************************)
EXTENDS Integers, Sequences, FiniteSets, TLC

----------------------------------------------------------------------------
(* Bounds *)

\* largest number of directory entries under the processed folder
MaxFiles == 3

\* largest number of uploaded files in one service-facade batch
MaxUploads == 2

\* largest number of URLs in one agent-protocol batch
MaxUrls == 2

\* largest number of process_folder calls a script makes on one instance
MaxCalls == 2

----------------------------------------------------------------------------
(* Program constants *)

\* settings.MAX_FILE_SIZE_MB default
MAX_FILE_SIZE_MB == 25

\* bytes per MB, 1024 * 1024
BytesPerMB == 1048576

\* max_size = self.config['max_file_size_mb'] * 1024 * 1024
max_size == MAX_FILE_SIZE_MB * BytesPerMB

\* ".mp3" ".mp4" ".mpeg" ".mpga" ".m4a" ".wav" ".webm" ".ogg" ".flac"
SUPPORTED_FORMATS ==
    { <<46,109,112,51>>, <<46,109,112,52>>, <<46,109,112,101,103>>,
      <<46,109,112,103,97>>, <<46,109,52,97>>, <<46,119,97,118>>,
      <<46,119,101,98,109>>, <<46,111,103,103>>, <<46,102,108,97,99>> }

\* "__converted" followed by target_ext ".wav"
ConvertedTail == <<95,95,99,111,110,118,101,114,116,101,100,46,119,97,118>>

\* directory returned by tempfile.gettempdir()
TempDir == "tmp"

\* Python None
None == "None"

----------------------------------------------------------------------------
(* Pure helpers: pathlib / str / round *)

Min(a, b) == IF a <= b THEN a ELSE b

\* index of the last "." (46) of a name that is not its first character, or 0
LastDot(name) ==
    LET dots == { k \in 2..Len(name) : name[k] = 46 }
    IN  IF dots = {} THEN 0 ELSE CHOOSE k \in dots : \A j \in dots : j <= k

\* Path.suffix
Suffix(name) ==
    IF LastDot(name) = 0 THEN << >> ELSE SubSeq(name, LastDot(name), Len(name))

\* str.lower() on ASCII
Lower(s) == [k \in 1..Len(s) |-> IF s[k] >= 65 /\ s[k] <= 90 THEN s[k] + 32 ELSE s[k]]

\* file_path.suffix.lower() in self.SUPPORTED_FORMATS
IsSupported(name) == Lower(Suffix(name)) \in SUPPORTED_FORMATS

\* Python's str "<" : code-point lexicographic order
LexLess(a, b) ==
    \E k \in 1..(Min(Len(a), Len(b)) + 1) :
        /\ \A j \in 1..(k - 1) : a[j] = b[j]
        /\ \/ k > Len(a) /\ k <= Len(b)
           \/ k <= Len(a) /\ k <= Len(b) /\ a[k] < b[k]

\* round(num / den, 0) with ties to even, on exact rationals
RoundHalfEven(num, den) ==
    LET q == num \div den
        r == num % den
    IN  IF 2 * r < den THEN q
        ELSE IF 2 * r > den THEN q + 1
        ELSE IF q % 2 = 0 THEN q ELSE q + 1

\* round(st_size / (1024 * 1024), 2), in hundredths of a MB
\* (st_size * 100 / 1048576 = st_size * 25 / 262144)
SizeMB(st_size) == RoundHalfEven(st_size * 25, 262144)

\* variant: the rate truncated instead of rounded
SuccessRateTruncated(successes, total) == (successes * 1000) \div total

\* round((successes / total) * 100, 1), in tenths of a percent
SuccessRate(successes, total) == RoundHalfEven(successes * 1000, total)

----------------------------------------------------------------------------
(* The environment: directory entries, uploads, URLs, the remote service *)

\* candidate directory entries under the processed folder:
\*   a.mp3, s2/a.mp3, C.WAV, b.txt, s1/x.aif, s2/x.aif, and a directory
\*   named d.ogg
Universe ==
    { [dir |-> "root",    name |-> <<97,46,109,112,51>>,   is_file |-> TRUE],
      [dir |-> "root/s2", name |-> <<97,46,109,112,51>>,   is_file |-> TRUE],
      [dir |-> "root",    name |-> <<67,46,87,65,86>>,     is_file |-> TRUE],
      [dir |-> "root",    name |-> <<98,46,116,120,116>>,  is_file |-> TRUE],
      [dir |-> "root/s1", name |-> <<120,46,97,105,102>>,  is_file |-> TRUE],
      [dir |-> "root/s2", name |-> <<120,46,97,105,102>>,  is_file |-> TRUE],
      [dir |-> "root",    name |-> <<100,46,111,103,103>>, is_file |-> FALSE] }

\* command lines of the CLI: the transcribe subcommand with the folder, the
\* folder alone, and no argument
CommandLines == { <<"transcribe", "folder">>, <<"folder">>, << >> }

\* file names of uploads: a.mp3, C.WAV, b.txt, and "NA" (no extension)
UploadNames ==
    { <<97,46,109,112,51>>, <<67,46,87,65,86>>, <<98,46,116,120,116>>, <<78,65>> }

\* file names of the parts of a multipart request: a.mp3, b.txt, and a part
\* without a file name
PartNames == { <<97,46,109,112,51>>, <<98,46,116,120,116>>, << >> }

\* content lengths of the parts of a multipart request
PartSizes == { max_size, max_size + 1 }

\* max_file_size_mb form values: the default, and one MB less
RequestCeilings == { MAX_FILE_SIZE_MB - 1, MAX_FILE_SIZE_MB }

\* output_format form values; "pdf" is not a recognised format
OutputFormats == { "json", "txt", "xlsx", "csv", "pdf" }

\* output_format form values of the HTTP requests
FormFormats == { "json", "xlsx", "pdf" }

\* language values of the agent-protocol tools: absent, "pt", "PT"
NoLanguage == [given |-> FALSE, code |-> << >>]
Languages ==
    { NoLanguage, [given |-> TRUE, code |-> <<112,116>>],
      [given |-> TRUE, code |-> <<80,84>>] }

\* language form values of the HTTP requests: absent, "PT"
FormLanguages == { NoLanguage, [given |-> TRUE, code |-> <<80,84>>] }

\* the HTTP transcription endpoints of api/main.py
Endpoints == { "/transcribe", "/transcribe/batch", "/transcribe/download" }

\* file names of URL paths: C.WAV, b.txt, and "voice" (no extension)
UrlNames == { <<67,46,87,65,86>>, <<98,46,116,120,116>>, <<118,111,105,99,101>> }

\* st_size values around the ceiling
Sizes == { max_size - 1, max_size, max_size + 1 }

\* transcripts the remote service may return (silent audio gives "")
Texts == { "hello", "" }

\* subclasses of Exception that the modelled calls raise
ExceptionClasses ==
    { "RuntimeError", "ValueError", "KeyError", "FileNotFoundError",
      "PermissionError", "APIConnectionError", "APITimeoutError", "Exception" }

\* str(e) of the modelled exceptions
StrOf(exc) ==
    CASE exc = "RuntimeError"       -> "Failed to convert audio file"
      [] exc = "APIConnectionError" -> "Connection error."
      [] exc = "APITimeoutError"    -> "Request timed out."
      [] exc = "KeyError"           -> "'tamanho_mb'"
      [] OTHER                      -> exc

\* what client.audio.transcriptions.create(**api_params) may do
RemoteOutcomes ==
    { [kind |-> "ok", text |-> t, exc |-> None] : t \in Texts } \cup
    { [kind |-> "raise", text |-> "", exc |-> e] :
          e \in {"APIConnectionError", "APITimeoutError"} }

\* all orders in which rglob may yield the entries of S
Perms(S) ==
    { s \in [1..Cardinality(S) -> S] :
          \A a, b \in 1..Cardinality(S) : a # b => s[a] # s[b] }

----------------------------------------------------------------------------
(* AudioTranscriber *)

\* variant: a handler that catches RuntimeError only
CaughtOnlyRuntimeError(exc) == exc = "RuntimeError"

\* variant: a bare `except:`, which also catches KeyboardInterrupt
CaughtEverything(exc) == TRUE

\* `except Exception` : KeyboardInterrupt derives from BaseException only
CaughtByException(exc) == exc \in ExceptionClasses

\* convert_audio_format: Path(temp_dir) / f"{stem}{suffix}__converted{target_ext}"
convert_audio_format(file_path) ==
    [dir |-> TempDir, name |-> file_path.name \o ConvertedTail]

RECURSIVE Walk(_, _)
\* the rglob loop of find_audio_files over the entries in rglob order;
\* convertible = the entries ffmpeg manages to convert
Walk(order, convertible) ==
    IF order = << >> THEN << >>
    ELSE LET e    == Head(order)
             p    == [dir |-> e.dir, name |-> e.name]
             rest == Walk(Tail(order), convertible)
         IN  IF e.is_file /\ IsSupported(e.name) THEN <<p>> \o rest
             ELSE IF e.is_file /\ e \in convertible
                  THEN <<convert_audio_format(p)>> \o rest
             ELSE rest

RECURSIVE InsertByName(_, _)
\* position of x in a list already sorted by name: after every element whose
\* name is not greater (list.sort is stable)
InsertByName(x, sorted) ==
    IF sorted = << >> THEN <<x>>
    ELSE IF LexLess(x.name, Head(sorted).name)
         THEN <<x>> \o sorted
         ELSE <<Head(sorted)>> \o InsertByName(x, Tail(sorted))

RECURSIVE SortByName(_)
\* audio_files.sort(key=lambda x: x.name)
SortByName(s) ==
    IF s = << >> THEN << >>
    ELSE InsertByName(s[Len(s)], SortByName(SubSeq(s, 1, Len(s) - 1)))

\* variant: the list is returned in traversal order
find_audio_files_unsorted(order, convertible) == Walk(order, convertible)

\* find_audio_files on an existing folder
find_audio_files(order, convertible) == SortByName(Walk(order, convertible))

\* find_audio_files 135-137: `if not folder.exists(): raise FileNotFoundError`
NotFound(exists, found) == ~exists

\* the files of the folder that ffmpeg may or may not manage to convert
Unsupported(entries) == { e \in entries : e.is_file /\ ~IsSupported(e.name) }

\* temporary files find_audio_files leaves in the temp directory
ConvertedBy(order, convertible) ==
    { convert_audio_format([dir |-> order[k].dir, name |-> order[k].name]) :
        k \in { j \in 1..Len(order) :
                  /\ order[j].is_file
                  /\ ~IsSupported(order[j].name)
                  /\ order[j] \in convertible } }

\* get_file_info
get_file_info(file_path, st_size) ==
    [file_name |-> file_path.name,
     full_path |-> file_path,
     size_mb   |-> SizeMB(st_size)]

\* the (transcription, success, error) tuple returned by transcribe_audio
Tuple3(transcription, success, error) ==
    [transcription |-> transcription, success |-> success, error |-> error]

\* variant: the handler drops the error message
OnExceptionNoMessage(exc) ==
    [kind |-> "return", result |-> Tuple3("", FALSE, ""), exc |-> None]

\* the handler of transcribe_audio's try block for exception exc
OnException(exc) ==
    IF CaughtByException(exc)
    THEN [kind |-> "return",
          result |-> Tuple3("", FALSE, "Error in transcription: " \o StrOf(exc)),
          exc |-> None]
    ELSE [kind |-> "raise", result |-> Tuple3("", FALSE, ""), exc |-> exc]

\* variant: a file of exactly the maximum size is rejected
TooLargeInclusive(file_size) == file_size >= max_size

\* variant: no size check
TooLargeNever(file_size) == FALSE

\* file_size > max_size
TooLarge(file_size) == file_size > max_size

\* transcribe_audio up to the remote call: format conversion, open, size check.
\* st_size: size of file_path; convOk: whether ffmpeg converts it;
\* converted_size: size of the converted copy. file_size is the size the
\* check reads (-1 when no file was opened)
TranscribePre(file_path, st_size, convOk, converted_size) ==
    LET needsConv == ~IsSupported(file_path.name)
        file_to_transcribe ==
            IF needsConv THEN convert_audio_format(file_path) ELSE file_path
        file_size == IF needsConv THEN converted_size ELSE st_size
        created == IF needsConv THEN {file_to_transcribe} ELSE {}
    IN  IF needsConv /\ ~convOk
        THEN OnException("RuntimeError") @@
             [file_to_transcribe |-> file_path, file_size |-> -1,
              created |-> {}]
        ELSE IF TooLarge(file_size)
        THEN [kind |-> "return",
              result |-> Tuple3("", FALSE, "File too large (>25MB)"),
              exc |-> None,
              file_to_transcribe |-> file_to_transcribe,
              file_size |-> file_size,
              created |-> created]
        ELSE [kind |-> "call",
              result |-> Tuple3("", FALSE, ""),
              exc |-> None,
              file_to_transcribe |-> file_to_transcribe,
              file_size |-> file_size,
              created |-> created]

\* variant: the call is started and not waited for
NotAwaited(pending, k) == pending

\* client.audio.transcriptions.create is a blocking call (and the agent
\* protocol awaits each coroutine): once control is back in the caller, call k
\* is no longer outstanding
Await(pending, k) == pending \ {k}

\* transcribe_audio from the return of the remote call on
TranscribePost(file_path, file_to_transcribe, outcome) ==
    IF outcome.kind = "ok"
    THEN [kind |-> "return",
          result |-> Tuple3(outcome.text, TRUE, ""),
          exc |-> None,
          unlinked |-> IF file_to_transcribe # file_path
                       THEN {file_to_transcribe} ELSE {}]
    ELSE OnException(outcome.exc) @@ [unlinked |-> {}]

----------------------------------------------------------------------------
(* State *)

VARIABLES
    frontEnd,      \* entry point exercised: "cli", "lib", "api", "http", "mcp",
                   \* or "script" (a script calling process_folder itself)
    argv,          \* cli: the command line, without the program name
    folderExists,  \* whether the folder given to the CLI exists
    folder,        \* directory entries under that folder
    files,         \* api, http: the (content, filename) list given to the
                   \* facade, as records of file name and content length
    audio_urls,    \* mcp: the URL list, as the file names of the URL paths
    request,       \* http: endpoint, uploaded parts and form values
    language,      \* http, mcp: the language parameter of the request
    pc,            \* position of the running operation
    audio_files,   \* process_folder: the located list
    i,             \* 1-based index of the file being processed
    cur,           \* locals of the transcribe_audio call in progress
    last,          \* what the latest transcribe_audio invocation returned
    results,       \* self.results (cli) / results (api, mcp)
    inFlight,      \* indices of files whose remote call is outstanding
    apiCalls,      \* remote calls made so far, per file index
    delays,        \* sleeps executed so far
    tmpfs,         \* files present in the temp directory
    report,        \* the report file written by save_to_excel
    exitCode,      \* return value of _handle_transcribe
    raised,        \* the exception that left process_folder, and where
    interrupted,   \* whether the user interrupted the run
    response,      \* api / mcp: the batch response
    artifact,      \* api, http: what format_output returned
    http,          \* http: the response sent to the client
    service,       \* the TranscriptionService of the HTTP process
    sessions,      \* concurrent requests: the locals of each request's handler
    tempdir,       \* concurrent requests: content of the temp directory's files
    AUTH_TOKEN,    \* settings.AUTH_TOKEN of the HTTP process ("" when unset)
    credentials,   \* http: the bearer credentials of the request, if any
    calls          \* script: process_folder calls made on the instance so far

envVars == <<frontEnd, argv, folderExists, folder, files, audio_urls, request,
            language, service, sessions, tempdir, AUTH_TOKEN, credentials, calls>>

vars == <<frontEnd, argv, folderExists, folder, files, audio_urls, request, language,
          pc, audio_files, i, cur, last, results, inFlight, apiCalls, delays,
          tmpfs, report, exitCode, raised, interrupted, response, artifact, http,
          service, sessions, tempdir, AUTH_TOKEN, credentials, calls>>

\* all lists over S of at most n elements
SeqsUpTo(S, n) == UNION { [1..k -> S] : k \in 0..n }

\* TranscriptionService() at startup (main.py 140-146), its AudioTranscriber
\* (transcriber.py 66-92): configuration, credentials, and self.results.
\* api_delay is in tenths of a second
Service ==
    [config |-> [api_timeout |-> 30, api_delay |-> 5,
                 max_file_size_mb |-> MAX_FILE_SIZE_MB],
     openai_api_key |-> "sk-key",
     results |-> << >>]

NoCur == [file_path |-> None]
NoLast == [file_path |-> None]
NoReport == [path |-> None]
NoRaise == [exc |-> None, from |-> None]
NoResponse == [total_files |-> None]
NoRequest == [endpoint |-> None, uploads |-> << >>]
NoHttp == [status |-> 0]

\* no Authorization header, or one that is not a bearer token: HTTPBearer
\* with auto_error=False gives None
NoCredentials == [given |-> FALSE, credentials |-> ""]

\* the Authorization headers a client sends: none, a wrong token, the token
Credentials ==
    { NoCredentials,
      [given |-> TRUE, credentials |-> "wrong"],
      [given |-> TRUE, credentials |-> "secret"] }

\* an upload: the file name and the length of the content
Uploads(names, sizes) == { [filename |-> n, size |-> z] : n \in names, z \in sizes }

\* the requests an HTTP client may send: /transcribe carries one part
Requests ==
    { r \in [endpoint : Endpoints,
              uploads : SeqsUpTo(Uploads(PartNames, PartSizes), MaxUploads) \ { << >> },
              output_format : FormFormats,
              max_file_size_mb : RequestCeilings] :
          r.endpoint = "/transcribe" => Len(r.uploads) = 1 }

\* the inputs of a run and the state before it starts
Setup ==
    /\ frontEnd \in {"cli", "lib", "api", "http", "mcp", "script"}
    /\ argv \in (IF frontEnd = "cli" THEN CommandLines ELSE { << >> })
    /\ folderExists \in (IF frontEnd \in {"cli", "lib", "script"}
                         THEN BOOLEAN ELSE {FALSE})
    /\ folder \in (IF folderExists
                   THEN { S \in SUBSET Universe : Cardinality(S) <= MaxFiles }
                   ELSE { {} })
    /\ files \in (IF frontEnd = "api"
                  THEN SeqsUpTo(Uploads(UploadNames, Sizes), MaxUploads)
                  ELSE { << >> })
    /\ audio_urls \in (IF frontEnd = "mcp"
                       THEN SeqsUpTo(UrlNames, MaxUrls) \ { << >> }
                       ELSE { << >> })
    /\ request \in (IF frontEnd = "http" THEN Requests ELSE { NoRequest })
    /\ language \in (IF frontEnd = "mcp" THEN Languages
                     ELSE IF frontEnd = "http" THEN FormLanguages
                     ELSE { NoLanguage })
    /\ pc = "idle"
    /\ audio_files = << >>
    /\ i = 0
    /\ cur = NoCur
    /\ last = NoLast
    /\ results = << >>
    /\ inFlight = {}
    /\ apiCalls = [k \in 1..(Cardinality(folder) + Len(files) + Len(audio_urls)
                              + Len(request.uploads)) |-> 0]
    /\ delays = 0
    /\ tmpfs = {}
    /\ report = NoReport
    /\ exitCode = -1
    /\ raised = NoRaise
    /\ interrupted = FALSE
    /\ response = NoResponse
    /\ artifact = [kind |-> None]
    /\ http = NoHttp
    /\ service = Service
    /\ sessions = << >>
    /\ tempdir = << >>
    /\ calls = 0

\* the program is entered by one of its front ends; AUTH_TOKEN is unset
\* unless the environment sets it
Init ==
    /\ Setup
    /\ frontEnd # "script"
    /\ AUTH_TOKEN = ""
    /\ credentials = NoCredentials

----------------------------------------------------------------------------
(* CLI batch runner: _handle_transcribe -> process_folder -> save_to_excel *)

\* variant: enumerate(audio_files) counting from 0
RecordZeroBased(id, file_info, result) ==
    [id            |-> id - 1,
     file_name     |-> file_info.file_name,
     full_path     |-> file_info.full_path,
     size_mb       |-> file_info.size_mb,
     transcription |-> IF result.success THEN result.transcription ELSE "",
     success       |-> IF result.success THEN "Yes" ELSE "No",
     error         |-> result.error]

\* the result dict process_folder appends for file number id
Record(id, file_info, result) ==
    [id            |-> id,
     file_name     |-> file_info.file_name,
     full_path     |-> file_info.full_path,
     size_mb       |-> file_info.size_mb,
     transcription |-> IF result.success THEN result.transcription ELSE "",
     success       |-> IF result.success THEN "Yes" ELSE "No",
     error         |-> result.error]

\* what transcribe_audio returned, as seen by its caller
Returned(c, result, called) ==
    [file_path |-> c.file_path, st_size |-> c.st_size,
     file_size |-> c.file_size, result |-> result, called |-> called]

\* variant: the sleep sits in the success branch only
AfterAppendSkipOnFailure(success) == IF success THEN "sleeping" ELSE "advancing"

\* process_folder 284-291: the statement reached once the record is
\* appended; the sleep follows the if/else on both of its branches
AfterAppend(success) == "sleeping"

\* variant: the empty check is missing
NoAudioFilesNever(found) == FALSE

\* process_folder 247: `if not audio_files`
NoAudioFiles(found) == found = << >>

\* return code chosen by _handle_transcribe's except clauses
CliExitCode(exc) == IF exc = "KeyboardInterrupt" THEN 130 ELSE 1

\* number of records of rs whose success column equals flag
CountSuccess(rs, flag) == Cardinality({ k \in 1..Len(rs) : rs[k].success = flag })

\* the 'Value' column of the Summary sheet
Summary(rs) ==
    [total     |-> Len(rs),
     successes |-> CountSuccess(rs, "Yes"),
     failures  |-> CountSuccess(rs, "No"),
     rate      |-> SuccessRate(CountSuccess(rs, "Yes"), Len(rs))]

\* variant: only the successful records are written to the detail sheet
WorkbookOfSuccesses(rs) ==
    [path |-> "output.xlsx",
     Transcriptions |-> SelectSeq(rs, LAMBDA r : r.success = "Yes"),
     Summary |-> Summary(rs)]

\* the workbook save_to_excel writes: sheet Transcriptions and sheet Summary
Workbook(rs) ==
    [path |-> "output.xlsx", Transcriptions |-> rs, Summary |-> Summary(rs)]

\* process_folder runs under the CLI, or is called by a script that keeps the
\* AudioTranscriber
InProcessFolder == frontEnd \in {"cli", "script"}

\* _handle_transcribe returns: the local transcriber, and its results, are
\* gone. A script's transcriber stays, with its results
CliReturn(code, exc, from) ==
    /\ pc' = "exited"
    /\ exitCode' = code
    /\ raised' = [exc |-> exc, from |-> from]
    /\ results' = IF frontEnd = "cli" THEN << >> ELSE results
    /\ cur' = NoCur
    /\ inFlight' = {}

\* the subcommands added to the parser (cli.py 49-72)
Commands == { "transcribe", "server" }

\* parser.parse_args() (cli.py 97): the first positional argument is the
\* subcommand and must be one of the parser's choices, otherwise argparse
\* reports "invalid choice" and exits with status 2; without arguments the
\* command is None
parse_args(args) ==
    IF args = << >> THEN [ok |-> TRUE, command |-> None]
    ELSE IF args[1] \in Commands THEN [ok |-> TRUE, command |-> args[1]]
    ELSE [ok |-> FALSE, command |-> None]

\* cli.py 97-135 and 138-153: parse the command line, create the transcriber,
\* validate the folder, call process_folder
CliStart ==
    /\ frontEnd = "cli" /\ pc = "idle"
    /\ \E api_key_found \in BOOLEAN :
         IF ~parse_args(argv).ok
         THEN CliReturn(2, "SystemExit", "main")
         ELSE IF parse_args(argv).command # "transcribe"
         THEN CliReturn(1, None, "main")
         ELSE IF ~api_key_found
         THEN CliReturn(CliExitCode("ValueError"), "ValueError", "init")
         ELSE IF ~folderExists
         THEN CliReturn(1, None, "cli")
         ELSE /\ pc' = "locating"
              /\ UNCHANGED <<exitCode, raised, results, cur, inFlight>>
    /\ UNCHANGED <<envVars, http, audio_files, i, last, apiCalls, delays, tmpfs,
                   report, interrupted, response, artifact>>

\* process_folder 244-255: Locating
Locate ==
    /\ InProcessFolder /\ pc = "locating"
    /\ \E order \in Perms(folder),
          convertible \in SUBSET Unsupported(folder) :
         LET found == find_audio_files(order, convertible)
         IN  /\ tmpfs' = tmpfs \cup ConvertedBy(order, convertible)
             /\ IF NotFound(folderExists, found)
                THEN /\ CliReturn(CliExitCode("FileNotFoundError"),
                                  "FileNotFoundError", "locating")
                     /\ UNCHANGED <<audio_files, i>>
                ELSE IF NoAudioFiles(found)
                THEN /\ CliReturn(CliExitCode("ValueError"), "ValueError", "locating")
                     /\ UNCHANGED <<audio_files, i>>
                ELSE /\ audio_files' = found
                     /\ results' = << >>
                     /\ i' = 1
                     /\ pc' = IF Len(found) = 0 THEN "reporting" ELSE "processing"
                     /\ UNCHANGED <<exitCode, raised, cur, inFlight>>
    /\ UNCHANGED <<envVars, http, last, apiCalls, delays, report, interrupted, response, artifact>>

\* process_folder 257-265 and transcribe_audio 187-216: ProcessingFile(i) up to
\* the remote call, or to the local return when there is none
StartFile ==
    /\ InProcessFolder /\ pc = "processing"
    /\ \E st_size \in Sizes, convOk \in BOOLEAN, converted_size \in Sizes :
         LET file_path == audio_files[i]
             pre == TranscribePre(file_path, st_size, convOk, converted_size)
             c   == [file_path |-> file_path, st_size |-> st_size,
                     file_size |-> pre.file_size,
                     file_to_transcribe |-> pre.file_to_transcribe]
         IN  /\ tmpfs' = tmpfs \cup pre.created
             /\ IF pre.kind = "call"
                THEN /\ pc' = "calling"
                     /\ cur' = c
                     /\ inFlight' = inFlight \cup {i}
                     /\ apiCalls' = [apiCalls EXCEPT ![i] = @ + 1]
                     /\ UNCHANGED <<results, last, exitCode, raised>>
                ELSE IF pre.kind = "return"
                THEN /\ pc' = AfterAppend(pre.result.success)
                     /\ results' = Append(results,
                            Record(i, get_file_info(file_path, st_size), pre.result))
                     /\ last' = Returned(c, pre.result, FALSE)
                     /\ UNCHANGED <<cur, inFlight, apiCalls, exitCode, raised>>
                ELSE /\ CliReturn(CliExitCode(pre.exc), pre.exc, "processing")
                     /\ UNCHANGED <<last, apiCalls>>
    /\ UNCHANGED <<envVars, http, audio_files, i, delays, report, interrupted, response, artifact>>

\* transcribe_audio 216-231 and process_folder 266-288: the remote call
\* returns or raises, the record is appended
FinishCall(outcome, from) ==
    LET post == TranscribePost(cur.file_path, cur.file_to_transcribe, outcome)
    IN  /\ IF post.kind = "return"
           THEN /\ pc' = AfterAppend(post.result.success)
                /\ results' = Append(results,
                       Record(i, get_file_info(cur.file_path, cur.st_size), post.result))
                /\ last' = Returned(cur, post.result, TRUE)
                /\ cur' = NoCur
                /\ inFlight' = Await(inFlight, i)
                /\ UNCHANGED <<exitCode, raised>>
           ELSE /\ CliReturn(CliExitCode(post.exc), post.exc, from)
                /\ UNCHANGED last
        /\ tmpfs' = tmpfs \ post.unlinked

CallReturns ==
    /\ InProcessFolder /\ pc = "calling"
    /\ \E outcome \in RemoteOutcomes : FinishCall(outcome, "calling")
    /\ UNCHANGED <<envVars, http, audio_files, i, apiCalls, delays, report,
                   interrupted, response, artifact>>

\* process_folder 291: time.sleep(api_delay), then the next file or Reporting
Sleep ==
    /\ InProcessFolder /\ pc \in {"sleeping", "advancing"}
    /\ delays' = IF pc = "sleeping" THEN delays + 1 ELSE delays
    /\ IF i < Len(audio_files)
       THEN i' = i + 1 /\ pc' = "processing"
       ELSE i' = i /\ pc' = "reporting"
    /\ UNCHANGED <<envVars, http, audio_files, cur, last, results, inFlight, apiCalls,
                   tmpfs, report, exitCode, raised, interrupted, response, artifact>>

\* process_folder 293-311 and save_to_excel: Reporting, then Done
Report ==
    /\ InProcessFolder /\ pc = "reporting"
    /\ \E writable \in BOOLEAN :
         IF results = << >>
         THEN /\ CliReturn(CliExitCode("ValueError"), "ValueError", "reporting")
              /\ UNCHANGED report
         ELSE IF ~writable
         THEN /\ CliReturn(CliExitCode("PermissionError"), "PermissionError", "reporting")
              /\ UNCHANGED report
         ELSE /\ report' = Workbook(results)
              /\ CliReturn(0, None, "reporting")
    /\ UNCHANGED <<envVars, http, audio_files, i, last, apiCalls, delays, tmpfs,
                   interrupted, response, artifact>>

\* the user interrupts the run: KeyboardInterrupt is raised where the run
\* currently is (inside the remote call, inside the sleep, or between them)
Interrupt ==
    /\ InProcessFolder
    /\ pc \in {"locating", "processing", "calling", "sleeping", "advancing"}
    /\ ~interrupted
    /\ interrupted' = TRUE
    /\ IF pc = "calling"
       THEN FinishCall([kind |-> "raise", text |-> "", exc |-> "KeyboardInterrupt"],
                       "calling")
       ELSE /\ CliReturn(CliExitCode("KeyboardInterrupt"), "KeyboardInterrupt", pc)
            /\ UNCHANGED <<last, tmpfs>>
    /\ UNCHANGED <<envVars, http, audio_files, i, apiCalls, delays, report, response, artifact>>

----------------------------------------------------------------------------
(* find_audio_files called directly, as the tests and the examples do *)

\* find_audio_files 125-156: FileNotFoundError, or the sorted list
FindAudioFiles ==
    /\ frontEnd = "lib" /\ pc = "idle"
    /\ \E order \in Perms(folder), convertible \in SUBSET Unsupported(folder) :
         LET found == find_audio_files(order, convertible)
         IN  IF NotFound(folderExists, found)
             THEN /\ pc' = "raised"
                  /\ raised' = [exc |-> "FileNotFoundError", from |-> "locating"]
                  /\ UNCHANGED <<audio_files, tmpfs>>
             ELSE /\ pc' = "located"
                  /\ audio_files' = found
                  /\ tmpfs' = tmpfs \cup ConvertedBy(order, convertible)
                  /\ UNCHANGED raised
    /\ UNCHANGED <<envVars, http, i, cur, last, results, inFlight, apiCalls, delays,
                   report, exitCode, interrupted, response, artifact>>

----------------------------------------------------------------------------
(* Service facade: TranscriptionService (api/service.py) *)

\* d[key] on a Python dict: the value, or KeyError
DictGet(d, key) ==
    IF key \in DOMAIN d
    THEN [ok |-> TRUE, value |-> d[key]]
    ELSE [ok |-> FALSE, value |-> None]

\* the key transcribe_single_file reads the size from
SizeKey == "tamanho_mb"

\* NamedTemporaryFile(suffix=..., delete=False): a fresh name "tmp<k>" + suffix
TempPath(k, suffix) == [dir |-> TempDir, name |-> <<116,109,112, 48 + k>> \o suffix]

\* the TranscriptionResponse of transcribe_single_file's except clause
ErrorResponse(filename, message) ==
    [success |-> FALSE, transcription |-> "", filename |-> filename,
     file_size_mb |-> 0, error |-> message]

\* transcribe_single_file 77-98: the response built once transcribe_audio
\* has returned `result`
SingleResponse(filename, file_info, result) ==
    LET size == DictGet(file_info, SizeKey)
    IN  IF size.ok
        THEN [success       |-> result.success,
              transcription |-> IF result.success THEN result.transcription ELSE "",
              filename      |-> filename,
              file_size_mb  |-> size.value,
              error         |-> IF ~result.success THEN result.error ELSE None]
        ELSE ErrorResponse(filename, StrOf("KeyError"))

\* successful += 1 for every result.success
Successful(rs) == Cardinality({ k \in 1..Len(rs) : rs[k].success })

\* transcribe_batch 130-141
BatchResponse(fs, rs) ==
    [success                   |-> Len(rs) > 0,
     total_files               |-> Len(fs),
     successful_transcriptions |-> Successful(rs),
     failed_transcriptions     |-> Len(fs) - Successful(rs),
     results                   |-> rs]

\* transcribe_batch 118-121
ApiStart ==
    /\ frontEnd = "api" /\ pc = "idle"
    /\ results' = << >>
    /\ i' = 1
    /\ pc' = IF files = << >> THEN "finishing" ELSE "processing"
    /\ UNCHANGED <<envVars, http, audio_files, cur, last, inFlight, apiCalls, delays,
                   tmpfs, report, exitCode, raised, interrupted, response, artifact>>

\* the endpoint calls transcribe_single_file itself: /transcribe, and
\* /transcribe/download with one part (main.py 502, 701-710)
SingleFile ==
    /\ frontEnd = "http"
    /\ \/ request.endpoint = "/transcribe"
       \/ request.endpoint = "/transcribe/download" /\ Len(request.uploads) = 1

\* transcribe_single_file returns: the for loop of transcribe_batch advances,
\* or the endpoint that called it directly goes on
ApiAdvance ==
    /\ i' = i + 1
    /\ pc' = IF i < Len(files) THEN "processing"
             ELSE IF SingleFile THEN "done" ELSE "finishing"

\* transcribe_single_file 51-69 and transcribe_audio 187-216: temp file,
\* get_file_info, transcribe_audio up to the remote call
ApiStartFile ==
    /\ frontEnd \in {"api", "http"} /\ pc = "processing"
    /\ \E convOk \in BOOLEAN, converted_size \in Sizes :
         LET filename  == files[i].filename
             st_size   == files[i].size
             temp_path == TempPath(i, Suffix(filename))
             file_info == get_file_info(temp_path, st_size)
             pre == TranscribePre(temp_path, st_size, convOk, converted_size)
             c   == [file_path |-> temp_path, st_size |-> st_size,
                     file_size |-> pre.file_size,
                     file_to_transcribe |-> pre.file_to_transcribe]
         IN  IF pre.kind = "call"
             THEN /\ pc' = "calling"
                  /\ cur' = c
                  /\ inFlight' = inFlight \cup {i}
                  /\ apiCalls' = [apiCalls EXCEPT ![i] = @ + 1]
                  /\ tmpfs' = tmpfs \cup {temp_path} \cup pre.created
                  /\ UNCHANGED <<results, last, i>>
             ELSE IF pre.kind = "return"
             THEN /\ ApiAdvance
                  /\ results' = Append(results,
                                       SingleResponse(filename, file_info, pre.result))
                  /\ last' = Returned(c, pre.result, FALSE)
                  /\ tmpfs' = (tmpfs \cup pre.created) \ {temp_path}
                  /\ UNCHANGED <<cur, inFlight, apiCalls>>
             ELSE /\ ApiAdvance
                  /\ results' = Append(results, ErrorResponse(filename, StrOf(pre.exc)))
                  /\ tmpfs' = tmpfs \cup {temp_path} \cup pre.created
                  /\ UNCHANGED <<cur, last, inFlight, apiCalls>>
    /\ UNCHANGED <<envVars, http, audio_files, delays, report, exitCode, raised,
                   interrupted, response, artifact>>

\* transcribe_audio 216-231 and transcribe_single_file 71-98: the remote call
\* returns or raises, the temp file is removed, the response is built
ApiCallReturns ==
    /\ frontEnd \in {"api", "http"} /\ pc = "calling"
    /\ \E outcome \in RemoteOutcomes :
         LET filename  == files[i].filename
             file_info == get_file_info(cur.file_path, cur.st_size)
             post == TranscribePost(cur.file_path, cur.file_to_transcribe, outcome)
         IN  IF post.kind = "return"
             THEN /\ results' = Append(results,
                                       SingleResponse(filename, file_info, post.result))
                  /\ last' = Returned(cur, post.result, TRUE)
                  /\ tmpfs' = (tmpfs \ post.unlinked) \ {cur.file_path}
             ELSE /\ results' = Append(results, ErrorResponse(filename, StrOf(post.exc)))
                  /\ UNCHANGED <<last, tmpfs>>
    /\ ApiAdvance
    /\ cur' = NoCur
    /\ inFlight' = Await(inFlight, i)
    /\ UNCHANGED <<envVars, http, audio_files, apiCalls, delays, report, exitCode,
                   raised, interrupted, response, artifact>>

\* transcribe_batch 130-141: the BatchTranscriptionResponse
ApiFinish ==
    /\ frontEnd \in {"api", "http"} /\ pc = "finishing"
    /\ response' = BatchResponse(files, results)
    /\ pc' = "done"
    /\ UNCHANGED <<envVars, http, audio_files, i, cur, last, results, inFlight, apiCalls,
                   delays, tmpfs, report, exitCode, raised, interrupted, artifact>>

\* the rows _create_spreadsheet builds for a batch response
SheetRows(rs) ==
    [k \in 1..Len(rs) |->
        [id          |-> k,
         arquivo     |-> rs[k].filename,
         transcricao |-> rs[k].transcription,
         sucesso     |-> rs[k].success,
         erro        |-> rs[k].error,
         tamanho_mb  |-> rs[k].file_size_mb]]

\* the 'Valor' column of the Resumo sheet
Resumo(resp) ==
    [total     |-> resp.total_files,
     successes |-> resp.successful_transcriptions,
     failures  |-> resp.failed_transcriptions,
     rate      |-> SuccessRate(resp.successful_transcriptions, resp.total_files)]

\* format_output / _create_spreadsheet on a batch response
format_output(resp, output_format) ==
    IF output_format = "json"
    THEN [kind |-> "json", body |-> resp]
    ELSE IF output_format = "txt"
    THEN [kind |-> "txt",
          body |-> SelectSeq(resp.results, LAMBDA r : r.success)]
    ELSE IF output_format = "xlsx"
    THEN IF resp.total_files = 0
         THEN [kind |-> "raised", body |-> "ZeroDivisionError"]
         ELSE [kind |-> "xlsx", body |-> SheetRows(resp.results),
               Transcricoes |-> SheetRows(resp.results), Resumo |-> Resumo(resp)]
    ELSE IF output_format = "csv"
    THEN [kind |-> "csv", body |-> SheetRows(resp.results)]
    ELSE [kind |-> "raised", body |-> "ValueError"]

\* the caller formats the batch response
ApiFormatOutput ==
    /\ frontEnd = "api" /\ pc = "done"
    /\ \E output_format \in OutputFormats :
         artifact' = format_output(response, output_format)
    /\ pc' = "formatted"
    /\ UNCHANGED <<envVars, http, audio_files, i, cur, last, results, inFlight, apiCalls,
                   delays, tmpfs, report, exitCode, raised, interrupted, response>>

----------------------------------------------------------------------------
(* HTTP endpoints: api/main.py *)

\* format_output / _create_spreadsheet on a single TranscriptionResponse
format_single(resp, output_format) ==
    LET row == [arquivo     |-> resp.filename,
                transcricao |-> resp.transcription,
                sucesso     |-> resp.success,
                erro        |-> resp.error,
                tamanho_mb  |-> resp.file_size_mb]
    IN  IF output_format = "json"
        THEN [kind |-> "json", body |-> resp]
        ELSE IF output_format = "txt"
        THEN [kind |-> "txt", body |-> resp.transcription]
        ELSE IF output_format = "xlsx"
        THEN [kind |-> "xlsx", body |-> <<row>>, Transcricoes |-> <<row>>]
        ELSE IF output_format = "csv"
        THEN [kind |-> "csv", body |-> <<row>>]
        ELSE [kind |-> "raised", body |-> "ValueError"]

\* len(content) / (1024 * 1024) > max_file_size_mb
PartTooLarge(size, max_file_size_mb) == size > max_file_size_mb * BytesPerMB

\* what an endpoint decides before it calls the facade
Rejected(status, detail) == [status |-> status, detail |-> detail, files |-> << >>]
Accepted(file_data) == [status |-> 200, detail |-> "", files |-> file_data]

\* POST /transcribe 472-498: the validations
transcribe_audio(r) ==
    LET file == r.uploads[1]
    IN  IF file.filename = << >>
        THEN Rejected(400, "Filename is required")
        ELSE IF PartTooLarge(file.size, r.max_file_size_mb)
        THEN Rejected(413, "File too large")
        ELSE Accepted(<<file>>)

\* POST /transcribe/batch 588-617: parts without a name, of unsupported
\* extension or over the size are left out
transcribe_batch(r) ==
    LET file_data ==
            SelectSeq(r.uploads,
                      LAMBDA file : /\ file.filename # << >>
                                    /\ IsSupported(file.filename)
                                    /\ ~PartTooLarge(file.size, r.max_file_size_mb))
    IN  IF r.uploads = << >>
        THEN Rejected(400, "At least one file is required")
        ELSE IF file_data = << >>
        THEN Rejected(400, "No valid files to process")
        ELSE Accepted(file_data)

\* POST /transcribe/download 700-717: one part is passed on as it is, of
\* several parts those with a name
transcribe_and_download(r) ==
    IF Len(r.uploads) = 1
    THEN Accepted(r.uploads)
    ELSE Accepted(SelectSeq(r.uploads, LAMBDA file : file.filename # << >>))

\* variant: a failed transcription is answered with status 500
StatusOfFailure(success) == IF success THEN 200 ELSE 500

\* /transcribe 508, /transcribe/batch 626: `return result`, whatever its
\* success flag
StatusOfResult(success) == 200

\* the request arrives: service check, validations, the facade is called
\* the 200 of a dependency that let the request through
Authorized == [status |-> 200, detail |-> ""]

\* verify_token: no check when AUTH_TOKEN is unset, 401 without credentials
\* or with other credentials than the token
verify_token(token, creds) ==
    IF token = ""
    THEN Authorized
    ELSE IF ~creds.given
    THEN [status |-> 401, detail |-> "Authorization header missing"]
    ELSE IF creds.credentials # token
    THEN [status |-> 401, detail |-> "Invalid authentication credentials"]
    ELSE Authorized

\* the endpoints whose signature has authorized: bool = Depends(verify_token)
DependsOnVerifyToken(endpoint) == endpoint = "/transcribe"

\* the dependencies of the endpoint are resolved before its body runs
Dependencies(req) ==
    IF DependsOnVerifyToken(req.endpoint)
    THEN verify_token(AUTH_TOKEN, credentials)
    ELSE Authorized

HttpReceive ==
    /\ frontEnd = "http" /\ pc = "idle"
    /\ \E service_available \in BOOLEAN :
         LET decided == IF request.endpoint = "/transcribe"
                        THEN transcribe_audio(request)
                        ELSE IF request.endpoint = "/transcribe/batch"
                        THEN transcribe_batch(request)
                        ELSE transcribe_and_download(request)
         IN  IF Dependencies(request).status # 200
             THEN /\ http' = [status |-> Dependencies(request).status,
                              body |-> Dependencies(request).detail]
                  /\ pc' = "responded"
                  /\ UNCHANGED <<files, results, i>>
             ELSE IF ~service_available
             THEN /\ http' = [status |-> 503,
                              body |-> "Transcription service not available"]
                  /\ pc' = "responded"
                  /\ UNCHANGED <<files, results, i>>
             ELSE IF decided.status # 200
             THEN /\ http' = [status |-> decided.status, body |-> decided.detail]
                  /\ pc' = "responded"
                  /\ UNCHANGED <<files, results, i>>
             ELSE /\ files' = decided.files
                  /\ results' = << >>
                  /\ i' = 1
                  /\ pc' = IF decided.files = << >> THEN "finishing" ELSE "processing"
                  /\ UNCHANGED http
    /\ UNCHANGED <<frontEnd, argv, folderExists, folder, audio_urls, request, language,
                   service, sessions, tempdir, AUTH_TOKEN, credentials, calls,
                   audio_files, cur, last, inFlight, apiCalls, delays, tmpfs,
                   report, exitCode, raised, interrupted, response, artifact>>

\* the facade has returned: the endpoint answers
HttpRespond ==
    /\ frontEnd = "http" /\ pc = "done"
    /\ LET result == IF SingleFile THEN results[1] ELSE response
           formatted == IF SingleFile
                        THEN format_single(result, request.output_format)
                        ELSE format_output(result, request.output_format)
       IN  IF request.endpoint = "/transcribe/download"
           THEN /\ artifact' = formatted
                /\ http' = IF formatted.kind = "raised"
                           THEN [status |-> 500, body |-> "Output formatting error"]
                           ELSE [status |-> 200, body |-> formatted]
           ELSE /\ http' = [status |-> StatusOfResult(result.success), body |-> result]
                /\ UNCHANGED artifact
    /\ pc' = "responded"
    /\ UNCHANGED <<envVars, audio_files, i, cur, last, results, inFlight, apiCalls,
                   delays, tmpfs, report, exitCode, raised, interrupted, response>>

----------------------------------------------------------------------------
(* Agent-protocol batch: MCPTranscriptionService (mcp/service.py) *)

\* TranscribeAudioInput / BatchTranscribeInput validate_language:
\* None, or two characters, alphabetic and lower case
validate_language(v) ==
    ~v.given \/ (Len(v.code) = 2 /\ \A k \in 1..Len(v.code) :
                                        v.code[k] >= 97 /\ v.code[k] <= 122)

\* download_audio_file 100-108: file name of the URL path, ".mp3" when it has
\* no extension
UrlFilename(urlname) ==
    LET filename == IF urlname = << >> THEN <<97,117,100,105,111,95,102,105,108,101>>
                    ELSE urlname
    IN  IF Suffix(filename) = << >> THEN filename \o <<46,109,112,51>> ELSE filename

\* what the streamed GET may do: deliver `size` bytes, or fail
DownloadOutcomes ==
    { [kind |-> "ok", size |-> s, exc |-> None] : s \in Sizes } \cup
    { [kind |-> "raise", size |-> 0, exc |-> e] :
          e \in {"HTTPStatusError", "TimeoutException"} }

\* download_audio_file: the content size, or the exception message
download_audio_file(dl) ==
    IF dl.kind = "raise"
    THEN [ok |-> FALSE, size |-> 0,
          error |-> IF dl.exc = "HTTPStatusError"
                    THEN "HTTP error downloading file: 404"
                    ELSE "Download timeout after 300s"]
    ELSE IF dl.size > MAX_FILE_SIZE_MB * BytesPerMB
    THEN [ok |-> FALSE, size |-> 0, error |-> "Download error: File too large"]
    ELSE [ok |-> TRUE, size |-> dl.size, error |-> None]

\* variant: every extension passes
validate_audio_format_any(filename) ==
    [ok |-> TRUE, extension |-> Lower(Suffix(filename))]

\* validate_audio_format: the lower-cased extension, supported or not
validate_audio_format(filename) ==
    [ok |-> Lower(Suffix(filename)) \in SUPPORTED_FORMATS,
     extension |-> Lower(Suffix(filename))]

\* TranscribeAudioOutput
McpOutput(success, transcription, filename, error) ==
    [success |-> success, transcription |-> transcription,
     filename |-> filename, error |-> error]

\* transcribe_audio_from_url 210-243: the output for a returned tuple
McpResult(filename, result) ==
    IF result.success
    THEN McpOutput(TRUE, result.transcription, filename, None)
    ELSE McpOutput(FALSE, "", filename, result.error)

\* BatchTranscribeOutput, transcribe_batch_from_urls 305-318
\* variant: the output lists the successful results only
McpBatchOutputOfSuccesses(rs) ==
    [success                   |-> TRUE,
     total_files               |-> Successful(rs),
     successful_transcriptions |-> Successful(rs),
     failed_transcriptions     |-> 0,
     results                   |-> SelectSeq(rs, LAMBDA r : r.success)]

McpBatchOutput(rs) ==
    [success                   |-> TRUE,
     total_files               |-> Len(rs),
     successful_transcriptions |-> Successful(rs),
     failed_transcriptions     |-> Len(rs) - Successful(rs),
     results                   |-> rs]

\* call_tool 170-179 (mcp/server.py) and transcribe_batch_from_urls 282-294:
\* the input is validated, the coroutines are created, none runs
McpStart ==
    /\ frontEnd = "mcp" /\ pc = "idle"
    /\ IF validate_language(language)
       THEN /\ results' = << >>
            /\ i' = 1
            /\ pc' = "processing"
            /\ UNCHANGED response
       ELSE /\ response' = [total_files |-> None, error_type |-> "ValidationError"]
            /\ pc' = "rejected"
            /\ UNCHANGED <<results, i>>
    /\ UNCHANGED <<envVars, http, audio_files, cur, last, inFlight, apiCalls, delays,
                   tmpfs, report, exitCode, raised, interrupted, artifact>>

\* the for loop of transcribe_batch_from_urls advances
McpAdvance ==
    /\ i' = i + 1
    /\ pc' = IF i < Len(audio_urls) THEN "processing" ELSE "finishing"

\* transcribe_batch_from_urls 297-302 and transcribe_audio_from_url 181-208:
\* the delay, then the i-th coroutine runs: download, format check, temp file,
\* transcribe_audio up to the remote call
McpStartUrl ==
    /\ frontEnd = "mcp" /\ pc = "processing"
    /\ delays' = IF i > 1 THEN delays + 1 ELSE delays
    /\ \E dl \in DownloadOutcomes, convOk \in BOOLEAN, converted_size \in Sizes :
         LET filename  == UrlFilename(audio_urls[i])
             got       == download_audio_file(dl)
             fmt       == validate_audio_format(filename)
             temp_path == TempPath(i, fmt.extension)
             pre == TranscribePre(temp_path, got.size, convOk, converted_size)
             c   == [file_path |-> temp_path, st_size |-> got.size,
                     file_size |-> pre.file_size,
                     file_to_transcribe |-> pre.file_to_transcribe]
         IN  IF ~got.ok
             THEN /\ McpAdvance
                  /\ results' = Append(results,
                         McpOutput(FALSE, "", audio_urls[i], got.error))
                  /\ UNCHANGED <<cur, last, inFlight, apiCalls, tmpfs>>
             ELSE IF ~fmt.ok
             THEN /\ McpAdvance
                  /\ results' = Append(results,
                         McpOutput(FALSE, "", audio_urls[i], "Unsupported audio format"))
                  /\ UNCHANGED <<cur, last, inFlight, apiCalls, tmpfs>>
             ELSE IF pre.kind = "call"
             THEN /\ pc' = "calling"
                  /\ cur' = c
                  /\ inFlight' = inFlight \cup {i}
                  /\ apiCalls' = [apiCalls EXCEPT ![i] = @ + 1]
                  /\ tmpfs' = tmpfs \cup {temp_path} \cup pre.created
                  /\ UNCHANGED <<results, last, i>>
             ELSE IF pre.kind = "return"
             THEN /\ McpAdvance
                  /\ results' = Append(results, McpResult(filename, pre.result))
                  /\ last' = Returned(c, pre.result, FALSE)
                  /\ tmpfs' = (tmpfs \cup pre.created) \ {temp_path}
                  /\ UNCHANGED <<cur, inFlight, apiCalls>>
             ELSE /\ McpAdvance
                  /\ results' = Append(results,
                         McpOutput(FALSE, "", audio_urls[i], StrOf(pre.exc)))
                  /\ tmpfs' = (tmpfs \cup pre.created) \ {temp_path}
                  /\ UNCHANGED <<cur, last, inFlight, apiCalls>>
    /\ UNCHANGED <<envVars, http, audio_files, report, exitCode, raised, interrupted,
                   response, artifact>>

\* transcribe_audio 216-231 and transcribe_audio_from_url 210-250: the remote
\* call returns or raises, the output is built, the temp file is removed
McpCallReturns ==
    /\ frontEnd = "mcp" /\ pc = "calling"
    /\ \E outcome \in RemoteOutcomes :
         LET filename == UrlFilename(audio_urls[i])
             post == TranscribePost(cur.file_path, cur.file_to_transcribe, outcome)
         IN  IF post.kind = "return"
             THEN /\ results' = Append(results, McpResult(filename, post.result))
                  /\ last' = Returned(cur, post.result, TRUE)
                  /\ tmpfs' = (tmpfs \ post.unlinked) \ {cur.file_path}
             ELSE /\ results' = Append(results,
                         McpOutput(FALSE, "", audio_urls[i], StrOf(post.exc)))
                  /\ tmpfs' = tmpfs \ {cur.file_path}
                  /\ UNCHANGED last
    /\ McpAdvance
    /\ cur' = NoCur
    /\ inFlight' = Await(inFlight, i)
    /\ UNCHANGED <<envVars, http, audio_files, apiCalls, delays, report, exitCode,
                   raised, interrupted, response, artifact>>

\* transcribe_batch_from_urls 305-318: the BatchTranscribeOutput
McpFinish ==
    /\ frontEnd = "mcp" /\ pc = "finishing"
    /\ response' = McpBatchOutput(results)
    /\ pc' = "done"
    /\ UNCHANGED <<envVars, http, audio_files, i, cur, last, results, inFlight, apiCalls,
                   delays, tmpfs, report, exitCode, raised, interrupted, artifact>>

----------------------------------------------------------------------------
(* Specification *)

Next ==
    \/ CliStart
    \/ Locate
    \/ StartFile
    \/ CallReturns
    \/ Sleep
    \/ Report
    \/ Interrupt
    \/ FindAudioFiles
    \/ ApiStart
    \/ ApiStartFile
    \/ ApiCallReturns
    \/ ApiFinish
    \/ ApiFormatOutput
    \/ HttpReceive
    \/ HttpRespond
    \/ McpStart
    \/ McpStartUrl
    \/ McpCallReturns
    \/ McpFinish

Spec == Init /\ [][Next]_vars

----------------------------------------------------------------------------
(* Concurrent HTTP requests on the one TranscriptionService.                *)
(* The event loop switches between request handlers where a handler awaits; *)
(* here a handler may be overtaken after every step it takes, which         *)
(* includes every schedule of the event loop.                               *)

\* the requests in progress at the same time
Sessions == {1, 2}

\* file names a request uploads: x.aif (to be converted) in both requests,
\* a.mp3 in request 1, C.WAV in request 2
SessionNames(s) ==
    IF s = 1 THEN { <<97,46,109,112,51>>, <<120,46,97,105,102>> }
    ELSE { <<67,46,87,65,86>>, <<120,46,97,105,102>> }

\* the bytes of part k of request s, different from every other part's
Content(s, k) == 10 * s + k

\* the parts of request s with the given file names
Parts(s, names) ==
    [k \in 1..Len(names) |->
        [filename |-> names[k], content |-> Content(s, k), size |-> max_size]]

\* numbers NamedTemporaryFile may draw a fresh name from
TempIds == {1, 2}

\* the variables of the single-request model, which no concurrent request uses
batchVars == <<frontEnd, argv, folderExists, folder, files, audio_urls, request, language,
              pc, audio_files, i, cur, last, results, inFlight, apiCalls, delays,
              tmpfs, report, exitCode, raised, interrupted, response, artifact, http,
              AUTH_TOKEN, credentials, calls>>

\* the handler of a request that has not arrived yet; sent records what the
\* remote service received for the request
NewSession(parts) ==
    [uploads |-> parts, pc |-> "idle", file_data |-> << >>, i |-> 1,
     results |-> << >>, cur |-> NoCur, sent |-> << >>, response |-> NoResponse]

\* file write and unlink on the temp directory
WriteFile(fs, p, content) ==
    [q \in DOMAIN fs \cup {p} |-> IF q = p THEN content ELSE fs[q]]
Unlink(fs, paths) == [q \in DOMAIN fs \ paths |-> fs[q]]

\* the bytes read from p; 0 when there is no such file
ReadFile(fs, p) == IF p \in DOMAIN fs THEN fs[p] ELSE 0

ConcInit ==
    /\ frontEnd = "http"
    /\ argv = << >>
    /\ folderExists = FALSE
    /\ folder = {}
    /\ files = << >>
    /\ audio_urls = << >>
    /\ request = NoRequest
    /\ language = NoLanguage
    /\ pc = "serving"
    /\ audio_files = << >>
    /\ i = 0
    /\ cur = NoCur
    /\ last = NoLast
    /\ results = << >>
    /\ inFlight = {}
    /\ apiCalls = << >>
    /\ delays = 0
    /\ tmpfs = {}
    /\ report = NoReport
    /\ exitCode = -1
    /\ raised = NoRaise
    /\ interrupted = FALSE
    /\ response = NoResponse
    /\ artifact = [kind |-> None]
    /\ http = NoHttp
    /\ service = Service
    /\ sessions \in { [s \in Sessions |-> NewSession(Parts(s, names[s]))] :
                        names \in [Sessions -> UNION { [1..n -> UNION { SessionNames(s) : s \in Sessions }] :
                                                          n \in 1..MaxUploads }] }
    /\ \A s \in Sessions : \A k \in 1..Len(sessions[s].uploads) :
           sessions[s].uploads[k].filename \in SessionNames(s)
    /\ tempdir = << >>
    /\ AUTH_TOKEN = ""
    /\ credentials = NoCredentials
    /\ calls = 0

\* the handler of request s moves on: its locals change as given by `changes`
Step(s, changes) == sessions' = [sessions EXCEPT ![s] = changes @@ sessions[s]]

\* variant: the list also holds what the other requests have accumulated
AccumulatedByAll(s) == sessions[1].results \o sessions[2].results

\* transcribe_batch 119-126: `results` is a local of the call
Accumulated(s) == sessions[s].results

\* the for loop of transcribe_batch, or the single call of the endpoint, goes on
AfterFile(q) == IF q.i < Len(q.file_data) THEN "processing" ELSE "finishing"

\* /transcribe/download 694-698: the request arrives, the handler reads the
\* global transcription_service
ConcReceive(s) ==
    /\ sessions[s].pc = "idle"
    /\ Step(s, [pc |-> "reading"])
    /\ UNCHANGED <<batchVars, service, tempdir>>

\* /transcribe/download 701-717: `content = await file.read()` for the next
\* part; after the last part the facade is called
ConcRead(s) ==
    /\ sessions[s].pc = "reading"
    /\ LET q == sessions[s]
           file_data == Append(q.file_data, q.uploads[Len(q.file_data) + 1])
       IN  Step(s, [file_data |-> file_data,
                    pc |-> IF Len(file_data) < Len(q.uploads)
                           THEN "reading" ELSE "processing"])
    /\ UNCHANGED <<batchVars, service, tempdir>>

\* transcribe_single_file 51-69 and transcribe_audio 187-216: temp file of a
\* fresh name, get_file_info, transcribe_audio up to the remote call
ConcStartFile(s) ==
    /\ sessions[s].pc = "processing"
    /\ \E k \in TempIds, convOk \in BOOLEAN :
         LET q         == sessions[s]
             part      == q.file_data[q.i]
             temp_path == TempPath(k, Suffix(part.filename))
             file_info == get_file_info(temp_path, part.size)
             pre       == TranscribePre(temp_path, part.size, convOk, part.size)
             written   == WriteFile(tempdir, temp_path, part.content)
             converted == IF pre.created = {} THEN written
                          ELSE WriteFile(written, pre.file_to_transcribe,
                                         ReadFile(written, temp_path))
         IN  /\ temp_path \notin DOMAIN tempdir
             /\ IF pre.kind = "call"
                THEN /\ tempdir' = converted
                     /\ Step(s, [pc |-> "calling",
                                 cur |-> [file_path |-> temp_path,
                                          st_size |-> part.size,
                                          file_size |-> pre.file_size,
                                          file_to_transcribe |-> pre.file_to_transcribe]])
                ELSE /\ tempdir' = Unlink(converted, {temp_path})
                     /\ Step(s, [pc |-> AfterFile(q), i |-> q.i + 1,
                                 results |-> Append(Accumulated(s),
                                     SingleResponse(part.filename, file_info, pre.result))])
    /\ UNCHANGED <<batchVars, service>>

\* transcribe_audio 216-231 and transcribe_single_file 71-98: the remote call
\* has read the open file and returns or raises; the temp file is removed,
\* the response is built
ConcCallReturns(s) ==
    /\ sessions[s].pc = "calling"
    /\ \E outcome \in RemoteOutcomes :
         LET q         == sessions[s]
             part      == q.file_data[q.i]
             file_info == get_file_info(q.cur.file_path, q.cur.st_size)
             post == TranscribePost(q.cur.file_path, q.cur.file_to_transcribe, outcome)
         IN  /\ tempdir' = Unlink(tempdir, post.unlinked \cup {q.cur.file_path})
             /\ Step(s, [pc |-> AfterFile(q), i |-> q.i + 1, cur |-> NoCur,
                         sent |-> Append(q.sent,
                                     [part |-> q.i,
                                      content |-> ReadFile(tempdir, q.cur.file_to_transcribe)]),
                         results |-> Append(Accumulated(s),
                                     SingleResponse(part.filename, file_info, post.result))])
    /\ UNCHANGED <<batchVars, service>>

\* transcribe_batch 130-141, /transcribe/download 704-723: the result the
\* endpoint formats (the one response of a single file, else the batch response)
ConcFinish(s) ==
    /\ sessions[s].pc = "finishing"
    /\ LET q == sessions[s]
       IN  Step(s, [pc |-> "done",
                    response |-> IF Len(q.uploads) = 1 THEN q.results[1]
                                 ELSE BatchResponse(q.file_data, q.results)])
    /\ UNCHANGED <<batchVars, service, tempdir>>

ConcNext ==
    \/ \E s \in Sessions : ConcReceive(s)
    \/ \E s \in Sessions : ConcRead(s)
    \/ \E s \in Sessions : ConcStartFile(s)
    \/ \E s \in Sessions : ConcCallReturns(s)
    \/ \E s \in Sessions : ConcFinish(s)

ConcSpec == ConcInit /\ [][ConcNext]_vars

----------------------------------------------------------------------------
(* The HTTP endpoints with and without AUTH_TOKEN set in the environment,   *)
(* and requests with and without bearer credentials.                        *)

AuthInit ==
    /\ Setup
    /\ frontEnd = "http"
    /\ AUTH_TOKEN \in { "", "secret" }
    /\ credentials \in Credentials

AuthNext ==
    \/ HttpReceive
    \/ ApiStartFile
    \/ ApiCallReturns
    \/ ApiFinish
    \/ HttpRespond

AuthSpec == AuthInit /\ [][AuthNext]_vars

----------------------------------------------------------------------------
(* A script that keeps one AudioTranscriber and calls process_folder on it  *)
(* for one folder after another, as exemplo_processamento_lote does, and    *)
(* may call save_to_excel itself afterwards.                                *)

\* the folders of the later calls: missing, empty, or holding one audio file
LaterFolders ==
    { {}, { [dir |-> "later", name |-> <<97,46,109,112,51>>, is_file |-> TRUE] } }

\* transcriber.process_folder(pasta, output_file): the first call is for the
\* folder of the initial state, a later one for another folder
ScriptCall ==
    /\ frontEnd = "script" /\ pc \in {"idle", "exited"}
    /\ calls < MaxCalls
    /\ calls' = calls + 1
    /\ pc' = "locating"
    /\ IF calls = 0
       THEN UNCHANGED <<folderExists, folder, apiCalls>>
       ELSE /\ folderExists' \in BOOLEAN
            /\ folder' \in (IF folderExists' THEN LaterFolders ELSE { {} })
            /\ apiCalls' = [k \in 1..Cardinality(folder') |-> 0]
    /\ i' = 0
    /\ exitCode' = -1
    /\ raised' = NoRaise
    /\ interrupted' = FALSE
    /\ UNCHANGED <<frontEnd, argv, files, audio_urls, request, language, service,
                   sessions, tempdir, AUTH_TOKEN, credentials,
                   audio_files, cur, last, results, inFlight, delays, tmpfs,
                   report, response, artifact, http>>

\* transcriber.save_to_excel(output_file), called by the script once
\* process_folder has returned or raised
ScriptSave ==
    /\ frontEnd = "script" /\ pc = "exited"
    /\ pc' = "saved"
    /\ IF results = << >>
       THEN /\ raised' = [exc |-> "ValueError", from |-> "saving"]
            /\ UNCHANGED report
       ELSE /\ raised' = [exc |-> None, from |-> "saving"]
            /\ report' = Workbook(results)
    /\ UNCHANGED <<envVars, http, audio_files, i, cur, last, results, inFlight,
                   apiCalls, delays, tmpfs, exitCode, interrupted, response,
                   artifact>>

RerunInit == Setup /\ frontEnd = "script" /\ AUTH_TOKEN = "" /\ credentials = NoCredentials

RerunNext ==
    \/ ScriptCall
    \/ Locate
    \/ StartFile
    \/ CallReturns
    \/ Sleep
    \/ Report
    \/ Interrupt
    \/ ScriptSave

RerunSpec == RerunInit /\ [][RerunNext]_vars

----------------------------------------------------------------------------
(* The batch runner on its own, with the progress its execution guarantees: *)
(* the interpreter goes on to the next statement, and every remote call     *)
(* returns or times out (timeout=api_timeout on the client). Nothing        *)
(* obliges the user to interrupt.                                           *)

RunnerInit == Init /\ frontEnd = "cli"

RunnerNext ==
    \/ CliStart
    \/ Locate
    \/ StartFile
    \/ CallReturns
    \/ Sleep
    \/ Report
    \/ Interrupt

\* the steps that have no input to choose: the interpreter goes on, the
\* remote call returns
RunnerProgress ==
    \/ CliStart
    \/ CallReturns
    \/ Sleep
    \/ Report

\* Locate and StartFile can be taken exactly at their control point,
\* whatever the folder holds: weak fairness of each, with that enabling
\* condition written out
LocateEnabled == pc = "locating"

StartFileEnabled == pc = "processing"

RunnerFairness ==
    /\ WF_vars(RunnerProgress)
    /\ []<>(~LocateEnabled) \/ []<><<Locate>>_vars
    /\ []<>(~StartFileEnabled) \/ []<><<StartFile>>_vars

\* the enabling conditions written out in RunnerFairness are the actions'
\* own
RunnerEnabling ==
    /\ LocateEnabled <=> ENABLED <<Locate>>_vars
    /\ StartFileEnabled <=> ENABLED <<StartFile>>_vars

RunnerSpec == RunnerInit /\ [][RunnerNext]_vars /\ RunnerFairness

----------------------------------------------------------------------------
(* Properties *)

SizeError == "File too large (>25MB)"

Rows == report.Transcriptions

Reported == report # NoReport

Abs(x) == IF x < 0 THEN -x ELSE x

\* rate (tenths of a percent) is s / n * 100 rounded to one decimal
IsRounded(rate, s, n) ==
    /\ 2 * Abs(rate * n - 1000 * s) <= n
    /\ 2 * Abs(rate * n - 1000 * s) = n => rate % 2 = 0

\* C1: in the batch runner a per-file transcription failure never aborts the
\* run: every file attempt leaves exactly one record, Reporting is entered
\* with N records, a run that returns the report location reports N rows, and
\* the only exception that leaves the per-file steps is the user's interrupt.
C1_PerFileFailureIsolated ==
    frontEnd = "cli" =>
        /\ pc \in {"processing", "calling"} => Len(results) = i - 1
        /\ pc = "sleeping" => Len(results) = i
        /\ pc = "reporting" => Len(results) = Len(audio_files)
        /\ (pc = "exited" /\ raised.from \in {"processing", "calling", "sleeping"})
               => raised.exc = "KeyboardInterrupt"
        /\ (pc = "exited" /\ exitCode = 0)
               => Reported /\ Len(Rows) = Len(audio_files)

\* a run of two or more files, all failing, one by size and one by a remote
\* timeout, that returned its report
C1_Witness ==
    /\ frontEnd = "cli" /\ pc = "exited" /\ exitCode = 0 /\ Reported
    /\ Len(Rows) >= 2
    /\ \A k \in 1..Len(Rows) : Rows[k].success = "No"
    /\ \E k \in 1..Len(Rows) : Rows[k].error = SizeError
    /\ \E k \in 1..Len(Rows) :
           Rows[k].error = "Error in transcription: Request timed out."

\* C2 as stated: a file whose own size exceeds the maximum is rejected with
\* the size error and without a remote call, and a file of exactly the
\* maximum size is not rejected for size.
C2_AsStated ==
    last # NoLast =>
        /\ last.st_size > max_size =>
               /\ last.result = Tuple3("", FALSE, SizeError)
               /\ ~last.called
        /\ last.st_size = max_size => last.result.error # SizeError

\* C2 amended: the size that decides is the size of the file transcribe_audio
\* opens (the file itself when its format is supported, its converted copy
\* otherwise): above the maximum it returns ("", False, size error) and makes
\* no remote call; at most the maximum, the maximum included, it is not
\* rejected for size.
C2_SizeCeiling ==
    /\ last # NoLast =>
        /\ last.file_size > max_size =>
               /\ last.result = Tuple3("", FALSE, SizeError)
               /\ ~last.called
        /\ (last.file_size >= 0 /\ last.file_size <= max_size) =>
               /\ last.result.error # SizeError
               /\ last.called
    /\ frontEnd = "cli" =>
           \A k \in 1..Len(results) :
               results[k].error = SizeError => apiCalls[k] = 0

\* file 1 was rejected for size without a call, file 2 has exactly the
\* maximum size and was sent to the remote service
C2_Witness ==
    /\ frontEnd = "cli" /\ Len(results) = 2
    /\ results[1].error = SizeError /\ apiCalls[1] = 0
    /\ last.file_size = max_size /\ last.called /\ apiCalls[2] = 1

\* C3: when the locator yields no file, process_folder ends with the input
\* error: Reporting is never entered, no remote call is made, no report exists.
C3_EmptyInput ==
    (frontEnd = "cli" /\ audio_files = << >>) =>
        /\ pc \in {"idle", "locating", "exited"}
        /\ ~Reported
        /\ \A k \in DOMAIN apiCalls : apiCalls[k] = 0
        /\ (pc = "exited" /\ raised.from = "locating" /\ ~interrupted)
               => raised.exc = "ValueError" /\ exitCode = 1

\* an existing, non-empty folder in which the locator found nothing
C3_Witness ==
    /\ frontEnd = "cli" /\ folderExists /\ folder # {}
    /\ pc = "exited" /\ raised = [exc |-> "ValueError", from |-> "locating"]
    /\ exitCode = 1

\* C4: the k records appended so far carry the ids 1..k in processing order:
\* record k is the record of the k-th located file.
C4_SequenceIds ==
    frontEnd = "cli" =>
        /\ \A k \in 1..Len(results) :
               results[k].id = k /\ results[k].full_path = audio_files[k]
        /\ Reported =>
               /\ Len(Rows) = Len(audio_files)
               /\ \A k \in 1..Len(Rows) :
                      Rows[k].id = k /\ Rows[k].full_path = audio_files[k]

\* a report of three rows
C4_Witness ==
    /\ frontEnd = "cli" /\ Reported /\ Len(Rows) = 3 /\ Rows[3].id = 3

\* C5: a failure record has empty text and a non-empty error, a success
\* record has an empty (or null) error: batch runner records, report rows and
\* service facade responses.
C5_RecordShape ==
    /\ frontEnd = "cli" =>
           /\ \A k \in 1..Len(results) :
                  /\ results[k].success = "No" =>
                         results[k].transcription = "" /\ results[k].error # ""
                  /\ results[k].success = "Yes" => results[k].error = ""
           /\ Reported =>
                  \A k \in 1..Len(Rows) :
                      /\ Rows[k].success = "No" =>
                             Rows[k].transcription = "" /\ Rows[k].error # ""
                      /\ Rows[k].success = "Yes" => Rows[k].error = ""
    /\ frontEnd = "api" =>
           \A k \in 1..Len(results) :
               /\ ~results[k].success =>
                      /\ results[k].transcription = ""
                      /\ results[k].error \notin {"", None}
               /\ results[k].success => results[k].error \in {"", None}

\* a report with a failed row and a successful row of silent audio
C5_Witness ==
    /\ frontEnd = "cli" /\ Reported
    /\ \E k \in 1..Len(Rows) : Rows[k].success = "No" /\ Rows[k].error # ""
    /\ \E k \in 1..Len(Rows) : Rows[k].success = "Yes" /\ Rows[k].transcription = ""

\* C6: for a batch of N >= 1 files, failures + successes = N, failures =
\* total - successes, and the reported rate is successes / N * 100 rounded to
\* one decimal: Summary sheet of the batch runner, batch response and Resumo
\* sheet of the service facade.
C6_SummaryCounts ==
    /\ (frontEnd = "cli" /\ Reported) =>
           LET n == Len(audio_files)
               s == Cardinality({ k \in 1..Len(Rows) : Rows[k].success = "Yes" })
           IN  /\ report.Summary.total = n
               /\ report.Summary.successes = s
               /\ report.Summary.failures + report.Summary.successes = n
               /\ report.Summary.failures = report.Summary.total - report.Summary.successes
               /\ IsRounded(report.Summary.rate, s, n)
    /\ (frontEnd = "api" /\ pc \in {"done", "formatted"} /\ Len(files) >= 1) =>
           LET n == Len(files)
               s == Cardinality({ k \in 1..Len(results) : results[k].success })
           IN  /\ response.total_files = n
               /\ response.successful_transcriptions = s
               /\ response.failed_transcriptions + response.successful_transcriptions = n
               /\ artifact.kind = "xlsx" =>
                      /\ artifact.Resumo.failures + artifact.Resumo.successes = n
                      /\ IsRounded(artifact.Resumo.rate, s, n)

\* a report on three files of which two succeeded: 66.7 %
C6_Witness ==
    /\ frontEnd = "cli" /\ Reported
    /\ report.Summary.total = 3 /\ report.Summary.successes = 2
    /\ report.Summary.failures = 1 /\ report.Summary.rate = 667

\* C7: a transcribe_audio invocation makes at most one remote call and a
\* failed call is not repeated: never more than one call per file, none for
\* a file not yet reached, exactly one for a processed file that passed the
\* size check and none for a file that failed it.
C7_OneCallNoRetry ==
    /\ \A k \in DOMAIN apiCalls :
           /\ apiCalls[k] <= 1
           /\ k > i => apiCalls[k] = 0
    /\ last # NoLast =>
           /\ last.file_size > max_size => ~last.called
           /\ (last.file_size >= 0 /\ last.file_size <= max_size) => last.called
    /\ frontEnd = "cli" =>
           \A k \in 1..Len(results) :
               apiCalls[k] = IF results[k].error = SizeError THEN 0 ELSE 1

\* three files processed: the first rejected for size, the second failed
\* remotely, the third succeeded; two calls in all
C7_Witness ==
    /\ frontEnd = "cli" /\ Len(results) = 3
    /\ results[1].error = SizeError /\ apiCalls[1] = 0
    /\ results[2].error = "Error in transcription: Connection error."
    /\ apiCalls[2] = 1
    /\ results[3].success = "Yes" /\ apiCalls[3] = 1

\* C8: in the batch runner one delay follows every appended record, failed
\* or not: when the call for file i starts, and while it runs, i-1 records
\* and i-1 delays precede it, and Reporting is entered after N delays.
C8_DelayAfterEveryFile ==
    frontEnd = "cli" =>
        /\ pc \in {"processing", "calling"} =>
               delays = i - 1 /\ Len(results) = delays
        /\ pc = "sleeping" => delays = i - 1 /\ Len(results) = i
        /\ pc = "reporting" =>
               delays = Len(audio_files) /\ Len(results) = delays

\* the call for file 2 is running after file 1 failed, one delay executed
C8_Witness ==
    /\ frontEnd = "cli" /\ pc = "calling" /\ i = 2 /\ delays = 1
    /\ results[1].success = "No"

C10_AbortWritesNothing ==
    frontEnd = "cli" =>
        /\ interrupted =>
               /\ ~Reported
               /\ pc = "exited" /\ results = << >> /\ exitCode = 130
        /\ Reported =>
               /\ ~interrupted
               /\ Len(Rows) = Len(audio_files)
               /\ delays = Len(audio_files)

\* the interrupt arrived during the call for file 2, after file 1's call
C10_Witness ==
    /\ frontEnd = "cli" /\ interrupted /\ pc = "exited"
    /\ raised = [exc |-> "KeyboardInterrupt", from |-> "calling"]
    /\ i = 2 /\ apiCalls[1] = 1 /\ apiCalls[2] = 1

----------------------------------------------------------------------------
(* The locator: find_audio_files *)

\* paths of the regular files of the folder whose extension is supported
SupportedPaths == { [dir |-> e.dir, name |-> e.name] :
                      e \in { f \in folder : f.is_file /\ IsSupported(f.name) } }

\* find_audio_files has returned a list
Located == frontEnd = "lib" /\ pc = "located"

\* the file names of a list of paths
Names(paths) == [k \in 1..Len(paths) |-> paths[k].name]

\* C11 as stated: the returned list holds exactly the regular files under
\* the root whose extension is supported, each once, and no record of the
\* batch belongs to any other file.
C11_AsStated ==
    /\ Located =>
           /\ \A k \in 1..Len(audio_files) : audio_files[k] \in SupportedPaths
           /\ \A p \in SupportedPaths : \E k \in 1..Len(audio_files) : audio_files[k] = p
           /\ Len(audio_files) = Cardinality(SupportedPaths)
    /\ frontEnd = "cli" =>
           \A k \in 1..Len(results) : results[k].full_path \in SupportedPaths

C13_AsStated ==
    (frontEnd = "lib" /\ pc \in {"located", "raised"}) => tmpfs = {}

\* C14 as stated: find_audio_files raises FileNotFoundError exactly when the
\* folder does not exist, and on an existing folder without a file of
\* supported extension it returns the empty list.
C14_AsStated ==
    frontEnd = "lib" =>
        /\ pc = "raised" => ~folderExists /\ raised.exc = "FileNotFoundError"
        /\ pc = "located" => folderExists
        /\ (pc = "located" /\ SupportedPaths = {}) => audio_files = << >>

----------------------------------------------------------------------------
(* The report writers, the service facade and the HTTP endpoints *)

\* the output formats the report writers recognise
Recognised == { "json", "txt", "xlsx", "csv" }

\* C15 as stated: a report writer given no record, or a format that is not
\* recognised, raises and produces no artifact: save_to_excel writes no report
\* without rows, and format_output returns nothing for an empty batch or an
\* unrecognised format.
C15_AsStated ==
    /\ (frontEnd = "cli" /\ Reported) => Len(Rows) >= 1
    /\ (frontEnd = "api" /\ pc = "formatted" /\ response.results = << >>)
           => artifact.kind = "raised"
    /\ (frontEnd = "http" /\ artifact.kind # None)
           => ((results = << >> \/ request.output_format \notin Recognised)
                   => artifact.kind = "raised")

\* the request carries a malformed language or an unrecognised output format
Malformed ==
    \/ ~validate_language(language)
    \/ frontEnd = "http" /\ request.output_format \notin Recognised

\* C16 as stated: a request with a malformed language or output format does
\* not start a run: no result is produced, no file is sent to the remote
\* service, and an HTTP endpoint answers with a client error.
C16_AsStated ==
    (frontEnd \in {"http", "mcp"} /\ Malformed) =>
        /\ \A k \in DOMAIN apiCalls : apiCalls[k] = 0
        /\ results = << >>
        /\ (frontEnd = "http" /\ pc = "responded")
               => http.status \in {400, 413, 422, 503}

\* C17 as stated: the facade's response for a file repeats what
\* transcribe_audio returned for it: on success the text and no error, on
\* failure an empty text and the same error message.
C17_AsStated ==
    (frontEnd \in {"api", "http"} /\ last # NoLast) =>
        LET r == results[Len(results)]
        IN  /\ last.result.success =>
                   /\ r.success
                   /\ r.transcription = last.result.transcription
                   /\ r.error = None
            /\ ~last.result.success =>
                   /\ ~r.success
                   /\ r.transcription = ""
                   /\ r.error = last.result.error

\* C18 as stated: a buffer larger than the ceiling given to the facade yields
\* a failure whose error is the size error, and no remote call is made for it.
C18_AsStated ==
    frontEnd = "api" =>
        \A k \in 1..Len(results) :
            files[k].size > max_size =>
                /\ ~results[k].success
                /\ results[k].error = SizeError
                /\ apiCalls[k] = 0

\* C19 as stated: on every HTTP transcription endpoint a named part larger
\* than the request's max_file_size_mb is answered with 413 (unless the
\* service is unavailable), and no remote call is made for such a file.
C19_AsStated ==
    frontEnd = "http" =>
        /\ (/\ pc = "responded"
            /\ http.status # 503
            /\ \E k \in 1..Len(request.uploads) :
                   /\ request.uploads[k].filename # << >>
                   /\ PartTooLarge(request.uploads[k].size, request.max_file_size_mb))
               => http.status = 413
        /\ \A k \in 1..Len(files) :
               PartTooLarge(files[k].size, request.max_file_size_mb) => apiCalls[k] = 0

----------------------------------------------------------------------------
(* Concurrent requests *)

\* C21: when the HTTP front end serves several requests at the same time
\* through the one TranscriptionService, the requests share no mutable state.
\* Under every interleaving the service's configuration, credentials and
\* self.results stay as initialised; the results of a request are the results
\* of its own parts, one per part and in their order; what the remote service
\* receives for a request are the bytes of that request's own parts; and the
\* result the endpoint answers with holds exactly the request's results.
C21_RequestsShareNoState ==
    \A s \in DOMAIN sessions :
        LET q == sessions[s]
        IN  /\ service = Service
            /\ Len(q.results) <= Len(q.uploads)
            /\ \A k \in 1..Len(q.results) :
                   q.results[k].filename = q.uploads[k].filename
            /\ \A k \in 1..Len(q.sent) :
                   q.sent[k].content = Content(s, q.sent[k].part)
            /\ q.pc = "done" =>
                   /\ Len(q.results) = Len(q.uploads)
                   /\ IF Len(q.uploads) = 1
                      THEN q.response = q.results[1]
                      ELSE /\ q.response.results = q.results
                           /\ q.response.total_files = Len(q.uploads)

\* request 1 is answered with the results of its two parts, x.aif first, and
\* left a converted copy in the temp directory; request 2, which also
\* uploads x.aif first, has arrived and is reading its second part
C21_Witness ==
    /\ DOMAIN sessions = Sessions
    /\ \A s \in Sessions : sessions[s].uploads[1].filename = <<120,46,97,105,102>>
    /\ sessions[1].pc = "done"
    /\ Len(sessions[1].results) = 2 /\ Len(sessions[1].sent) = 2
    /\ sessions[2].pc = "reading" /\ Len(sessions[2].file_data) = 1
    /\ DOMAIN tempdir # {}

----------------------------------------------------------------------------
(* The command line *)

\* the command line names a folder: with the transcribe subcommand, or as
\* its first argument
NamesFolder == argv \in { <<"transcribe", "folder">>, <<"folder">> }

\* C22 as stated: the CLI transcribe path returns 0 when the batch completes
\* with a report, 1 on any failure and 130 on user interrupt; for a folder
\* that does not exist it returns 1 and process_folder is never called; all
\* this also when the folder is the first argument and there is no
\* subcommand, where process_folder is entered for an existing folder
\* (once the transcriber could be created).
C22_AsStated ==
    (frontEnd = "cli" /\ pc = "exited" /\ NamesFolder) =>
        /\ exitCode \in {0, 1, 130}
        /\ exitCode = 0 <=> Reported
        /\ exitCode = 130 <=> interrupted
        /\ ~folderExists => exitCode = 1 /\ raised.from \in {"init", "cli"}
        /\ (folderExists /\ raised.from # "init") => raised.from \notin {"main", "cli"}

----------------------------------------------------------------------------
(* Reading a report back *)

\* a missing value, as pandas shows it
NaN == <<78,97,78>>

\* text that pandas.read_excel takes for a missing value (keep_default_na):
\* the empty cell, "NA", "NaN", "nan", "null", "NULL", "None", "N/A", "n/a"
MissingValues ==
    { << >>, <<78,65>>, <<78,97,78>>, <<110,97,110>>, <<110,117,108,108>>,
      <<78,85,76,76>>, <<78,111,110,101>>, <<78,47,65>>, <<110,47,97>> }

\* a text cell as read_excel returns it
ReadText(cell) == IF cell \in MissingValues THEN NaN ELSE cell

\* pandas.read_excel(book, sheet_name=sheet), columns name_col and flag_col:
\* the rows of the sheet in sheet order, or an error when the workbook has no
\* sheet of that name
read_excel(book, sheet, name_col, flag_col) ==
    IF sheet \in DOMAIN book
    THEN [ok   |-> TRUE,
          rows |-> [k \in 1..Len(book[sheet]) |->
                       [name |-> ReadText(book[sheet][k][name_col]),
                        flag |-> book[sheet][k][flag_col]]]]
    ELSE [ok |-> FALSE, rows |-> << >>]

\* the rows read back are the records' file names and success flags, one row
\* per record, in the order of the record list
Reproduces(back, rs, name_field, flag_field) ==
    /\ back.ok
    /\ Len(back.rows) = Len(rs)
    /\ \A k \in 1..Len(rs) :
           /\ back.rows[k].name = rs[k][name_field]
           /\ back.rows[k].flag = rs[k][flag_field]

\* the same, for the records whose file name is not a missing-value marker;
\* the name of any other record is read back as NaN
ReproducesNamed(back, rs, name_field, flag_field) ==
    /\ back.ok
    /\ Len(back.rows) = Len(rs)
    /\ \A k \in 1..Len(rs) :
           /\ back.rows[k].name = IF rs[k][name_field] \in MissingValues
                                  THEN NaN ELSE rs[k][name_field]
           /\ back.rows[k].flag = rs[k][flag_field]

\* the facade has written an xlsx artifact for its batch
FacadeWroteXlsx == frontEnd = "api" /\ pc = "formatted" /\ artifact.kind = "xlsx"

----------------------------------------------------------------------------
(* The batch runner's state machine. Idle, Locating and Reporting are the   *)
(* positions "idle", "locating" and "reporting"; ProcessingFile(i) is file  *)
(* number i being processed, called for, or slept after; Done is the return *)
(* with code 0, an error terminal the return with another code.             *)

ProcessingFile == pc \in {"processing", "calling", "sleeping"}

Done == pc = "exited" /\ exitCode = 0

ErrorTerminal == pc = "exited" /\ exitCode # 0

\* the steps Idle -> Locating -> ProcessingFile(1) -> ... -> ProcessingFile(N)
\* -> Reporting -> Done, and Locating -> error terminal. Before the run starts
\* the CLI may refuse the command line, the missing key or the missing folder.
ListedStep ==
    \/ pc = "idle" /\ pc' \in {"locating", "exited"}
    \/ pc = "locating" /\ pc' = "processing" /\ i' = 1 /\ audio_files' # << >>
    \/ pc = "locating" /\ ErrorTerminal'
    \/ /\ ProcessingFile /\ ProcessingFile' /\ i' = i
       /\ pc # "sleeping" /\ pc' # "processing"
       /\ Len(results') \in {i - 1, i}
    \/ /\ pc = "sleeping" /\ pc' = "processing"
       /\ i < Len(audio_files) /\ i' = i + 1 /\ Len(results) = i
    \/ /\ pc = "sleeping" /\ pc' = "reporting"
       /\ i = Len(audio_files) /\ Len(results) = Len(audio_files)
    \/ pc = "reporting" /\ Done' /\ Reported'

\* the steps that end a run early: the user's interrupt while a file is being
\* processed, and a report that cannot be written
EndingStep ==
    \/ ProcessingFile /\ ErrorTerminal' /\ exitCode' = 130 /\ interrupted'
    \/ pc = "reporting" /\ ErrorTerminal' /\ ~Reported'

\* C24 as stated: a batch runner run takes only the transitions Idle ->
\* Locating -> ProcessingFile(1) -> ... -> ProcessingFile(N) -> Reporting ->
\* Done, or Locating -> an error terminal.
C24_AsStated == [][ListedStep]_vars

\* C24 amended: a batch runner run takes only the transitions Idle -> Locating
\* -> ProcessingFile(1) -> ... -> ProcessingFile(N) -> Reporting -> Done,
\* Locating -> an error terminal, ProcessingFile(i) -> an error terminal on the
\* user's interrupt, and Reporting -> an error terminal when the report cannot
\* be written. No file is processed twice or skipped, Reporting is entered at
\* most once and only after the final file, and, when every transcription
\* call returns or times out, every run eventually reaches Done or an error
\* terminal.
C24_RunnerStateMachine ==
    /\ [][ListedStep \/ EndingStep]_vars
    /\ <>(Done \/ ErrorTerminal)

\* the run is in Reporting after three files, each called for once or
\* rejected for its size
C24_Witness ==
    /\ frontEnd = "cli" /\ pc = "reporting"
    /\ Len(audio_files) = 3 /\ i = 3 /\ Len(results) = 3
    /\ \A k \in 1..3 : apiCalls[k] <= 1

\* the request carries no bearer token or a wrong one while AUTH_TOKEN is set
Unauthenticated ==
    /\ frontEnd = "http"
    /\ AUTH_TOKEN # ""
    /\ ~credentials.given \/ credentials.credentials # AUTH_TOKEN

\* C25 as stated: when AUTH_TOKEN is configured, a request without a bearer
\* token or with a wrong one never causes a transcription call, and each of
\* /transcribe, /transcribe/batch and /transcribe/download answers it with
\* 401 before reading or transcribing any file.
C25_AsStated ==
    Unauthenticated =>
        /\ \A k \in DOMAIN apiCalls : apiCalls[k] = 0
        /\ files = << >> /\ results = << >>
        /\ pc = "responded" => http.status = 401

\* the batch run of the front end is complete: process_folder has written
\* its report, or the facade has answered every file
BatchComplete ==
    \/ frontEnd = "cli" /\ Done
    \/ frontEnd \in {"api", "http"} /\ pc \in {"done", "responded"}

\* C26 as stated: every temporary file created by convert_audio_format or by
\* transcribe_single_file is deleted by the time the operation consuming it
\* has returned, on every outcome; after a complete batch run no temporary
\* file created by that run remains.
C26_AsStated == BatchComplete => tmpfs = {}

\* no path occurs twice in the list
NoRepeats(paths) ==
    \A j, k \in 1..Len(paths) : j # k => paths[j] # paths[k]

\* C27 as stated: find_audio_files never returns the same path twice, also
\* when two files of the same name in different subdirectories are both
\* converted, so each record of a batch is the transcription of a different
\* source file.
C27_AsStated ==
    /\ NoRepeats(audio_files)
    /\ frontEnd = "cli" =>
           NoRepeats([k \in 1..Len(results) |-> results[k].full_path])

\* the paths under the folder of the latest process_folder call, and the
\* converted copies of files under it
OfLatestCall(path) ==
    \/ \E e \in folder : e.dir = path.dir /\ e.name = path.name
    \/ \E e \in folder : path = convert_audio_format([dir |-> e.dir, name |-> e.name])

\* a later process_folder call on the instance has got past locating its files
LaterCallStarted == frontEnd = "script" /\ calls >= 2 /\ pc # "locating"

\* C28 as stated: once a later process_folder call on the instance has
\* started, also one that ends with the no-input or folder-not-found error,
\* the results list holds only records of that call's files, and a report
\* written afterwards holds no record of an earlier run.
C28_AsStated ==
    LaterCallStarted =>
        /\ \A k \in 1..Len(results) : OfLatestCall(results[k].full_path)
        /\ (pc = "saved" /\ raised.exc = None) =>
               \A k \in 1..Len(Rows) : OfLatestCall(Rows[k].full_path)

\* the output names the file of the URL: the last path segment, or the file
\* name derived from it for the download
BelongsTo(output, urlname) == output.filename \in { urlname, UrlFilename(urlname) }

DownloadErrors ==
    { download_audio_file(dl).error :
        dl \in { d \in DownloadOutcomes : ~download_audio_file(d).ok } }

\* the file name of URL k has no supported extension
UnsupportedUrl(k) == ~validate_audio_format(UrlFilename(audio_urls[k])).ok

====
